---- MODULE Spec2Model ----
(***************************************************************************)
(* The boofuzz command line (src/boofuzz/cli.py): main_helper registers    *)
(* the fuzz script's sub-command, the `fuzz` group callback resolves the   *)
(* options into a debugger backend, a process monitor, a logger list, an   *)
(* index range, a connection and a session, the sub-command runs, and the  *)
(* result callback starts session.fuzz or session.feature_check.           *)
(*                                                                         *)
(* A Python str is a sequence of one-character strings; an optional value  *)
(* is a sequence of length 0 (None) or 1 (the value).  A dict is a         *)
(* function on its keys.  Objects that the code aliases (the monitors, the *)
(* open files) live in a heap and are referred to by their index.          *)
(***************************************************************************)
EXTENDS Integers, Sequences, FiniteSets, TLC

VARIABLES
    opt,             \* the parsed command line options of `fuzz`
    platform,        \* platform.system()
    click_command,   \* the argument of main_helper
    QEMU_PATH,       \* debugger_thread_qemu.QEMU_PATH (module global)
    commands,        \* sub-commands registered on the fuzz group
    result_callback, \* whether fuzzcallback is registered on the group
    pc,              \* position in main_helper / fuzz / click's dispatch
    exit_code,       \* the process's exit code, None while running
    exc,             \* what ended the run early ("none" if nothing)
    debugger,
    local_procmon,
    fuzz_loggers,
    procmon_options,
    procmon,
    monitors,
    max_depth,
    start,
    end,
    connection,
    session,
    ctx_obj,         \* ctx.obj
    heap,            \* the monitor objects constructed so far
    files,           \* the file handles opened so far
    calls            \* the calls made on the collaborators, in order

inputs  == <<opt, platform, click_command>>
globals == <<QEMU_PATH, commands, result_callback>>
control == <<pc, exit_code, exc>>
locals  == <<debugger, local_procmon, fuzz_loggers, procmon_options, procmon,
             monitors, max_depth, start, end, connection, session>>
world   == <<ctx_obj, heap, files, calls>>
vars    == <<inputs, globals, control, locals, world>>

----------------------------------------------------------------------------
(* Bounds of the model *)

\* longest --test-case-index string enumerated
MaxLen == 3
\* longest --target-cmd string enumerated
MaxCmdLen == 3
\* --target-start-wait ranges over -MaxWait..MaxWait seconds
MaxWait == 1
\* the integers N, a, b the range claims quantify over are 0..MaxNum
MaxNum == 22

(* Program constants *)
DEFAULT_PROCMON_PORT == "constants.DEFAULT_PROCMON_PORT"
DEFAULT_WEB_UI_PORT == "constants.DEFAULT_WEB_UI_PORT"

----------------------------------------------------------------------------
(* Python values *)

None == <<>>
Some(v) == <<v>>
Val(o) == o[1]

\* bool(x) of an optional str held as an atom: None and "" are falsy
Truthy(o) == o # None /\ Val(o) # ""

\* all strings over `chars` of length at most n
RECURSIVE StringsOfLen(_, _)
StringsOfLen(chars, n) ==
    IF n = 0 THEN {<<>>}
    ELSE {Append(s, c) : s \in StringsOfLen(chars, n - 1), c \in chars}

Strings(chars, n) == UNION {StringsOfLen(chars, k) : k \in 0..n}

\* c in s
Contains(s, c) == \E i \in 1..Len(s) : s[i] = c

\* s.split(c)
RECURSIVE Split(_, _)
Split(s, c) ==
    IF ~Contains(s, c) THEN <<s>>
    ELSE LET i == CHOOSE k \in 1..Len(s) :
                      s[k] = c /\ \A j \in 1..(k - 1) : s[j] # c
         IN <<SubSeq(s, 1, i - 1)>> \o Split(SubSeq(s, i + 1, Len(s)), c)

Digits == {"0", "1", "2", "3", "4", "5", "6", "7", "8", "9"}

DigitVal(c) ==
    CASE c = "0" -> 0 [] c = "1" -> 1 [] c = "2" -> 2 [] c = "3" -> 3
      [] c = "4" -> 4 [] c = "5" -> 5 [] c = "6" -> 6 [] c = "7" -> 7
      [] c = "8" -> 8 [] c = "9" -> 9

\* whether int(s) returns (it raises ValueError otherwise); the strings of
\* the model hold digits, "-" and letters only
IntAccepts(s) == Len(s) > 0 /\ \A i \in 1..Len(s) : s[i] \in Digits

\* int(s) of a string of decimal digits
RECURSIVE IntOf(_)
IntOf(s) ==
    IF Len(s) = 1 THEN DigitVal(s[1])
    ELSE 10 * IntOf(SubSeq(s, 1, Len(s) - 1)) + DigitVal(s[Len(s)])

\* shlex.split(s) of a string without quotes, escapes or comments:
\* the maximal runs of non-blank characters
RECURSIVE ShlexSplit(_)
ShlexSplit(s) ==
    IF s = <<>> THEN <<>>
    ELSE IF s[1] = " " THEN ShlexSplit(Tail(s))
    ELSE LET n == IF Contains(s, " ")
                  THEN (CHOOSE k \in 1..Len(s) :
                            s[k] = " " /\ \A j \in 1..(k - 1) : s[j] # " ") - 1
                  ELSE Len(s)
         IN <<SubSeq(s, 1, n)>> \o ShlexSplit(SubSeq(s, n + 1, Len(s)))

----------------------------------------------------------------------------
(* The decisions of `fuzz`, as the code computes them *)

\* faulty variant of QemuUnsupported: the platform is never checked
QemuUnsupportedNever(plat) == FALSE

\* --qemu is refused on this platform
QemuUnsupported(plat) == plat = "Windows"

\* debugger_thread_qemu.QEMU_PATH after the --qemu-path override
OverriddenQemuPath(qemu_path, current) ==
    IF qemu_path # None THEN qemu_path ELSE current

\* the debugger class handed to the local process monitor
DebuggerClass(qemu) ==
    IF qemu THEN "DebuggerThreadQemu" ELSE "DebuggerThreadSimple"

\* faulty variant of NeedsLocalProcmon: --procmon-host is not looked at
NeedsLocalProcmonAnyHost(target_cmd, procmon_host) == target_cmd # None

\* whether a ProcessMonitorLocal is constructed
NeedsLocalProcmon(target_cmd, procmon_host) ==
    target_cmd # None /\ procmon_host = None

\* the object ProcessMonitorLocal(...) constructs
NewLocalProcmon(debugger_class) ==
    [class |-> "ProcessMonitorLocal", crash_filename |-> "boofuzz-crash-bin",
     proc_name |-> None, pid_to_ignore |-> None,
     debugger_class |-> debugger_class, level |-> 1,
     set_options_calls |-> 0, options |-> None]

\* the object ProcessMonitor(host, port) constructs
NewRemoteProcmon(host, port) ==
    [class |-> "ProcessMonitor", host |-> host, port |-> port,
     set_options_calls |-> 0, options |-> None]

\* faulty variant of ConsoleLoggers: the TUI wins over the text dump
ConsoleLoggersTuiFirst(text_dump, tui) ==
    IF tui THEN <<[class |-> "FuzzLoggerCurses"]>>
    ELSE IF text_dump THEN <<[class |-> "FuzzLoggerText"]>>
    ELSE <<>>

\* the console logger: text dump wins over the TUI
ConsoleLoggers(text_dump, tui) ==
    IF text_dump THEN <<[class |-> "FuzzLoggerText"]>>
    ELSE IF tui THEN <<[class |-> "FuzzLoggerCurses"]>>
    ELSE <<>>

\* faulty variant of StdoutOptions: CAPTURE and HIDE exchanged
StdoutOptionsSwapped(stdout) ==
    IF stdout = "CAPTURE" THEN "hide_output" :> TRUE
    ELSE IF stdout = "HIDE" THEN "capture_output" :> TRUE
    ELSE <<>>

\* the keys --stdout adds to procmon_options
StdoutOptions(stdout) ==
    IF stdout = "CAPTURE" THEN "capture_output" :> TRUE
    ELSE IF stdout = "HIDE" THEN "hide_output" :> TRUE
    ELSE <<>>

\* whether startup_wait is put into procmon_options: `if target_start_wait:`
WaitRequested(target_start_wait) == target_start_wait # 0

\* the procmon_options dict
ProcmonOptions(target_cmd, target_start_wait, stdout) ==
    (IF target_cmd # None
        THEN "start_commands" :> <<ShlexSplit(Val(target_cmd))>> ELSE <<>>)
    @@ (IF WaitRequested(target_start_wait)
        THEN "startup_wait" :> target_start_wait ELSE <<>>)
    @@ StdoutOptions(stdout)

\* faulty variant of HasMonitor: a remote host alone attaches nothing
HasMonitorLocalOnly(local, procmon_host) == local # None

\* whether a monitor is attached
HasMonitor(local, procmon_host) == local # None \/ procmon_host # None

\* whether the attached monitor is the remote one
UseRemoteProcmon(procmon_host) == procmon_host # None

MaxDepth(combinatorial) == IF combinatorial THEN None ELSE Some(1)

\* faulty variant of StartOf: an empty start is 0
StartOfFromZero(part) == IF part = <<>> THEN Some(0) ELSE Some(IntOf(part))

\* start of "a-b": 1 when a is empty
StartOf(part) == IF part = <<>> THEN Some(1) ELSE Some(IntOf(part))

\* end of "a-b": None (unbounded) when b is empty
EndOf(part) == IF part = <<>> THEN None ELSE Some(IntOf(part))

\* start and end of --test-case-index; raises on a ValueError of int() or
\* of the unpacking of split("-")
TestCaseRange(test_case_index) ==
    IF test_case_index = None
    THEN [raises |-> FALSE, start |-> Some(1), end |-> None]
    ELSE LET s == Val(test_case_index) IN
         IF Contains(s, "-")
         THEN LET parts == Split(s, "-") IN
              IF Len(parts) # 2
                 \/ (parts[1] # <<>> /\ ~IntAccepts(parts[1]))
                 \/ (parts[2] # <<>> /\ ~IntAccepts(parts[2]))
              THEN [raises |-> TRUE, start |-> None, end |-> None]
              ELSE [raises |-> FALSE, start |-> StartOf(parts[1]),
                    end |-> EndOf(parts[2])]
         ELSE IF ~IntAccepts(s)
              THEN [raises |-> TRUE, start |-> None, end |-> None]
              ELSE [raises |-> FALSE, start |-> Some(IntOf(s)),
                    end |-> Some(IntOf(s))]

\* faulty variant of RunEntryPoint: --feature-check is ignored
RunEntryPointAlwaysFuzz(feature_check) == "fuzz"

\* the session's entry point that fuzzcallback calls
RunEntryPoint(feature_check) ==
    IF feature_check THEN "feature_check" ELSE "fuzz"

\* the sub-command click runs between the group callback and the result
\* callback: the one registered on the group
NextAfterContext == "subcommand"

----------------------------------------------------------------------------
(* The command lines enumerated *)

IndexChars == {"0", "1", "2", "-", "x"}
CmdChars == {"m", "-", " "}
Waits == (0 - MaxWait)..MaxWait

\* the options the model leaves at one value
FixedOptions ==
    [target |-> "127.0.0.1:9999", test_case_name |-> None,
     sleep_between_cases |-> 0, keep_web |-> TRUE, record_passes |-> 10,
     web_port |-> DEFAULT_WEB_UI_PORT, restart_interval |-> None,
     procmon_port |-> DEFAULT_PROCMON_PORT]

Options(qemu_paths, cmds, hosts, stdouts, waits, flags, csvs, indexes) ==
    {FixedOptions @@
     [qemu |-> q, qemu_path |-> qp, target_cmd |-> tc, procmon_host |-> ph,
      stdout |-> so, target_start_wait |-> w, text_dump |-> td, tui |-> tu,
      csv_out |-> co, feature_check |-> fc, combinatorial |-> cb,
      test_case_index |-> ix] :
        q \in BOOLEAN, qp \in qemu_paths, tc \in cmds, ph \in hosts,
        so \in stdouts, w \in waits, td \in flags, tu \in flags,
        fc \in flags, cb \in flags, co \in csvs, ix \in indexes}

\* every option group at its extremes, the strings by samples
RunOptions ==
    Options({None, Some(""), Some("/opt/afl-qemu-trace")},
            {None, Some(<<"m", " ", "-">>)}, {None, Some("10.0.0.5")},
            {"MIRROR"}, {0}, BOOLEAN, {None, Some("out.csv")},
            {None, Some(<<"x">>)})

\* every --target-cmd, --stdout and --target-start-wait
MonitorOptions ==
    Options({None}, {None} \cup {Some(s) : s \in Strings(CmdChars, MaxCmdLen)},
            {None, Some("10.0.0.5")}, {"HIDE", "CAPTURE", "MIRROR"}, Waits,
            {FALSE}, {None}, {None})

\* every --test-case-index
IndexOptions ==
    Options({None}, {None}, {None}, {"MIRROR"}, {0}, {FALSE},
            {None, Some("out.csv")},
            {None} \cup {Some(s) : s \in Strings(IndexChars, MaxLen)})

Start(options, platforms, qemu_paths, scripts) ==
    /\ opt \in options
    /\ platform \in platforms
    /\ click_command \in scripts
    /\ QEMU_PATH \in qemu_paths
    /\ commands = {}
    /\ result_callback = FALSE
    /\ pc = "main_helper"
    /\ exit_code = None
    /\ exc = "none"
    /\ debugger = "unset"
    /\ local_procmon = None
    /\ fuzz_loggers = <<>>
    /\ procmon_options = <<>>
    /\ procmon = None
    /\ monitors = <<>>
    /\ max_depth = None
    /\ start = None
    /\ end = None
    /\ connection = None
    /\ session = None
    /\ ctx_obj = None
    /\ heap = <<>>
    /\ files = <<>>
    /\ calls = <<>>

Init ==
    Start(RunOptions, {"Linux", "Windows"},
          {None, Some("/usr/bin/afl-qemu-trace")}, {None, Some("script")})

InitMonitor ==
    Start(MonitorOptions, {"Linux"}, {Some("/usr/bin/afl-qemu-trace")},
          {None, Some("script")})

InitIndex ==
    Start(IndexOptions, {"Linux"}, {None}, {None, Some("script")})

----------------------------------------------------------------------------
(* The steps *)

\* sys.exit(code), or an exception nobody catches (code 1)
Exit(code, why) ==
    /\ pc' = "exit"
    /\ exit_code' = Some(code)
    /\ exc' = why

Goto(label) ==
    /\ pc' = label
    /\ UNCHANGED <<exit_code, exc>>

Called(entry) == calls' = Append(calls, entry)

\* main_helper: register the script's command, then main()
MainHelper ==
    /\ pc = "main_helper"
    /\ commands' = IF click_command # None
                   THEN commands \cup {Val(click_command)} ELSE commands
    /\ Goto("dispatch")
    /\ UNCHANGED <<inputs, QEMU_PATH, result_callback, locals, world>>

\* cli(): click runs the group callback `fuzz` only for a command line
\* that names a registered sub-command
Dispatch ==
    /\ pc = "dispatch"
    /\ IF commands = {} THEN Exit(2, "UsageError") ELSE Goto("debugger")
    /\ UNCHANGED <<inputs, globals, locals, world>>

\* fuzz, the --qemu block
SelectDebugger ==
    /\ pc = "debugger"
    /\ IF opt.qemu
       THEN IF QemuUnsupported(platform)
            THEN /\ Exit(1, "SystemExit")
                 /\ UNCHANGED <<QEMU_PATH, debugger>>
            ELSE /\ QEMU_PATH' = OverriddenQemuPath(opt.qemu_path, QEMU_PATH)
                 /\ IF ~Truthy(QEMU_PATH')
                    THEN Exit(1, "SystemExit") /\ UNCHANGED debugger
                    ELSE /\ debugger' = DebuggerClass(TRUE)
                         /\ Goto("local_procmon")
       ELSE /\ debugger' = DebuggerClass(FALSE)
            /\ Goto("local_procmon")
            /\ UNCHANGED QEMU_PATH
    /\ UNCHANGED <<inputs, commands, result_callback, local_procmon,
                   fuzz_loggers, procmon_options, procmon, monitors, max_depth,
                   start, end, connection, session, world>>

\* fuzz, local_procmon
BuildLocalProcmon ==
    /\ pc = "local_procmon"
    /\ IF NeedsLocalProcmon(opt.target_cmd, opt.procmon_host)
       THEN /\ heap' = Append(heap, NewLocalProcmon(debugger))
            /\ local_procmon' = Some(Len(heap) + 1)
            /\ Called([op |-> "ProcessMonitorLocal"])
       ELSE /\ local_procmon' = None
            /\ UNCHANGED <<heap, calls>>
    /\ Goto("loggers")
    /\ UNCHANGED <<inputs, globals, debugger, fuzz_loggers, procmon_options,
                   procmon, monitors, max_depth, start, end, connection,
                   session, ctx_obj, files>>

\* fuzz, fuzz_loggers; open() may raise
AssembleLoggers ==
    /\ pc = "loggers"
    /\ IF opt.csv_out # None
       THEN \E opened \in BOOLEAN :
              /\ Called([op |-> "open"])
              /\ IF opened
                 THEN /\ files' = Append(files, [name |-> "boofuzz.csv",
                                                 mode |-> "wb",
                                                 state |-> "open"])
                      /\ fuzz_loggers' =
                            Append(ConsoleLoggers(opt.text_dump, opt.tui),
                                   [class |-> "FuzzLoggerCsv",
                                    file_handle |-> Len(files) + 1])
                      /\ Goto("options")
                 ELSE /\ fuzz_loggers' =
                            ConsoleLoggers(opt.text_dump, opt.tui)
                      /\ Exit(1, "open")
                      /\ UNCHANGED files
       ELSE /\ fuzz_loggers' = ConsoleLoggers(opt.text_dump, opt.tui)
            /\ Goto("options")
            /\ UNCHANGED <<files, calls>>
    /\ UNCHANGED <<inputs, globals, debugger, local_procmon, procmon_options,
                   procmon, monitors, max_depth, start, end, connection,
                   session, ctx_obj, heap>>

\* fuzz, procmon_options
BuildProcmonOptions ==
    /\ pc = "options"
    /\ procmon_options' = ProcmonOptions(opt.target_cmd, opt.target_start_wait,
                                         opt.stdout)
    /\ Goto("monitors")
    /\ UNCHANGED <<inputs, globals, debugger, local_procmon, fuzz_loggers,
                   procmon, monitors, max_depth, start, end, connection,
                   session, world>>

\* fuzz, procmon and monitors; set_options may raise
SelectMonitors ==
    /\ pc = "monitors"
    /\ IF HasMonitor(local_procmon, opt.procmon_host)
       THEN LET remote == UseRemoteProcmon(opt.procmon_host)
                built == IF remote
                         THEN Append(heap, NewRemoteProcmon(
                                  Val(opt.procmon_host), opt.procmon_port))
                         ELSE heap
                ref == IF remote THEN Len(heap) + 1 ELSE Val(local_procmon)
            IN \E pushed \in BOOLEAN :
                 /\ procmon' = Some(ref)
                 /\ heap' = [built EXCEPT ![ref] =
                                [@ EXCEPT !.set_options_calls = @ + 1,
                                          !.options = IF pushed
                                                      THEN Some(procmon_options)
                                                      ELSE @]]
                 /\ calls' = calls
                             \o (IF remote THEN <<[op |-> "ProcessMonitor"]>>
                                 ELSE <<>>)
                             \o <<[op |-> "set_options"]>>
                 /\ IF pushed
                    THEN monitors' = <<ref>> /\ Goto("max_depth")
                    ELSE Exit(1, "set_options") /\ UNCHANGED monitors
       ELSE /\ procmon' = None
            /\ monitors' = <<>>
            /\ Goto("max_depth")
            /\ UNCHANGED <<heap, calls>>
    /\ UNCHANGED <<inputs, globals, debugger, local_procmon, fuzz_loggers,
                   procmon_options, max_depth, start, end, connection, session,
                   ctx_obj, files>>

\* fuzz, max_depth
SetMaxDepth ==
    /\ pc = "max_depth"
    /\ max_depth' = MaxDepth(opt.combinatorial)
    /\ Goto("index")
    /\ UNCHANGED <<inputs, globals, debugger, local_procmon, fuzz_loggers,
                   procmon_options, procmon, monitors, start, end, connection,
                   session, world>>

\* fuzz, start and end
ParseTestCaseIndex ==
    /\ pc = "index"
    /\ LET range == TestCaseRange(opt.test_case_index) IN
         IF range.raises
         THEN Exit(1, "ValueError") /\ UNCHANGED <<start, end>>
         ELSE /\ start' = range.start
              /\ end' = range.end
              /\ Goto("connection")
    /\ UNCHANGED <<inputs, globals, debugger, local_procmon, fuzz_loggers,
                   procmon_options, procmon, monitors, max_depth, connection,
                   session, world>>

\* fuzz, connection; parse_target may raise
Connect ==
    /\ pc = "connection"
    /\ \E parsed \in BOOLEAN :
         IF parsed
         THEN /\ connection' = Some([class |-> "TCPSocketConnection",
                                     target |-> opt.target])
              /\ Called([op |-> "TCPSocketConnection"])
              /\ Goto("session")
         ELSE /\ Exit(1, "parse_target")
              /\ UNCHANGED <<connection, calls>>
    /\ UNCHANGED <<inputs, globals, debugger, local_procmon, fuzz_loggers,
                   procmon_options, procmon, monitors, max_depth, start, end,
                   session, ctx_obj, heap, files>>

\* fuzz, session; the constructor may raise
ConstructSession ==
    /\ pc = "session"
    /\ Called([op |-> "Session"])
    /\ \E built \in BOOLEAN :
         IF built
         THEN /\ session' =
                   Some([target |-> [connection |-> Val(connection),
                                     monitors |-> monitors],
                         fuzz_loggers |-> fuzz_loggers,
                         sleep_time |-> opt.sleep_between_cases,
                         index_start |-> start,
                         index_end |-> end,
                         keep_web_open |-> opt.keep_web,
                         fuzz_db_keep_only_n_pass_cases |-> opt.record_passes,
                         web_port |-> opt.web_port,
                         restart_interval |-> opt.restart_interval])
              /\ Goto("context")
         ELSE Exit(1, "Session") /\ UNCHANGED session
    /\ UNCHANGED <<inputs, globals, debugger, local_procmon, fuzz_loggers,
                   procmon_options, procmon, monitors, max_depth, start, end,
                   connection, ctx_obj, heap, files>>

\* fuzz, ctx.obj and the registration of fuzzcallback
StoreContext ==
    /\ pc = "context"
    /\ ctx_obj' = Some([session |-> Val(session)])
    /\ result_callback' = TRUE
    /\ Goto(NextAfterContext)
    /\ UNCHANGED <<inputs, QEMU_PATH, commands, locals, heap, files, calls>>

\* click invokes the sub-command; it may raise
RunSubcommand ==
    /\ pc = "subcommand"
    /\ \E cmd \in commands, returned \in BOOLEAN :
         /\ Called([op |-> "subcommand", name |-> cmd])
         /\ IF returned THEN Goto("callback") ELSE Exit(1, "subcommand")
    /\ UNCHANGED <<inputs, globals, locals, ctx_obj, heap, files>>

\* fuzzcallback; the session's entry point may raise
FuzzCallback ==
    /\ pc = "callback"
    /\ IF result_callback
       THEN \E returned \in BOOLEAN :
              /\ Called(IF RunEntryPoint(opt.feature_check) = "feature_check"
                        THEN [op |-> "feature_check"]
                        ELSE [op |-> "fuzz", name |-> opt.test_case_name,
                              max_depth |-> max_depth, qemu |-> opt.qemu])
              /\ IF returned
                 THEN pc' = "done" /\ exit_code' = Some(0) /\ UNCHANGED exc
                 ELSE Exit(1, "run")
       ELSE pc' = "done" /\ exit_code' = Some(0) /\ UNCHANGED <<exc, calls>>
    /\ UNCHANGED <<inputs, globals, locals, ctx_obj, heap, files>>

Next ==
    \/ MainHelper
    \/ Dispatch
    \/ SelectDebugger
    \/ BuildLocalProcmon
    \/ AssembleLoggers
    \/ BuildProcmonOptions
    \/ SelectMonitors
    \/ SetMaxDepth
    \/ ParseTestCaseIndex
    \/ Connect
    \/ ConstructSession
    \/ StoreContext
    \/ RunSubcommand
    \/ FuzzCallback

Spec == Init /\ [][Next]_vars

SpecMonitor == InitMonitor /\ [][Next]_vars

SpecIndex == InitIndex /\ [][Next]_vars

----------------------------------------------------------------------------
(* How far the run has come *)

Steps == <<"main_helper", "dispatch", "debugger", "local_procmon", "loggers",
           "options", "monitors", "max_depth", "index", "connection",
           "session", "context", "subcommand", "callback", "done">>

Pos(label) == CHOOSE i \in 1..Len(Steps) : Steps[i] = label

\* the step that ended the run early
ExitStep ==
    CASE exc = "UsageError" -> "dispatch"
      [] exc = "SystemExit" -> "debugger"
      [] exc = "open" -> "loggers"
      [] exc = "set_options" -> "monitors"
      [] exc = "ValueError" -> "index"
      [] exc = "parse_target" -> "connection"
      [] exc = "Session" -> "session"
      [] exc = "subcommand" -> "subcommand"
      [] exc = "run" -> "callback"

\* the step `label` has been taken
Ran(label) ==
    IF pc = "exit" THEN Pos(ExitStep) >= Pos(label) ELSE Pos(pc) > Pos(label)

\* the step `label` has been taken and went on to the next one
Passed(label) ==
    IF pc = "exit" THEN Pos(ExitStep) > Pos(label) ELSE Pos(pc) > Pos(label)

Terminated == pc \in {"done", "exit"}

CallsOf(ops) == {i \in 1..Len(calls) : calls[i].op \in ops}

RunCalls == CallsOf({"fuzz", "feature_check"})

\* str(n) of a natural number
DigitChar(d) ==
    CASE d = 0 -> "0" [] d = 1 -> "1" [] d = 2 -> "2" [] d = 3 -> "3"
      [] d = 4 -> "4" [] d = 5 -> "5" [] d = 6 -> "6" [] d = 7 -> "7"
      [] d = 8 -> "8" [] d = 9 -> "9"

RECURSIVE Decimal(_)
Decimal(n) ==
    IF n < 10 THEN <<DigitChar(n)>>
    ELSE Append(Decimal(n \div 10), DigitChar(n % 10))

Nums == 0..MaxNum

----------------------------------------------------------------------------
(* The claims *)

\* C1: once the result callback has run, exactly one of session.fuzz and
\* session.feature_check has been called, once, feature_check iff
\* --feature-check; that call comes after the session's construction and
\* after every registered sub-command; no sub-command runs before the
\* session is constructed and stored in ctx.obj.
C1_OneRunAfterSessionAndSubcommands ==
    /\ Cardinality(RunCalls) <= 1
    /\ Ran("callback") =>
         /\ Cardinality(RunCalls) = 1
         /\ \A i \in RunCalls :
              calls[i].op = "feature_check" <=> opt.feature_check
    /\ \A i \in RunCalls :
         /\ session # None
         /\ \E j \in 1..(i - 1) :
              /\ calls[j].op = "Session"
              /\ \A c \in commands :
                   \E k \in (j + 1)..(i - 1) :
                     calls[k] = [op |-> "subcommand", name |-> c]
    /\ \A k \in CallsOf({"subcommand"}) :
         /\ session # None
         /\ ctx_obj = Some([session |-> Val(session)])
         /\ \E j \in 1..(k - 1) : calls[j].op = "Session"

C1_Witness ==
    /\ pc = "done"
    /\ opt.feature_check
    /\ \E i \in RunCalls : calls[i].op = "feature_check"
    /\ CallsOf({"subcommand"}) # {}

\* C2: the monitor list holds one monitor iff --target-cmd or --procmon-host
\* was given, is empty otherwise, and is what the session gets.
C2_OneMonitorIffRequested ==
    /\ Passed("monitors") =>
         /\ Len(monitors) <= 1
         /\ Len(monitors) = 1 <=>
              (opt.target_cmd # None \/ opt.procmon_host # None)
    /\ session # None => Val(session).target.monitors = monitors

C2_Witness ==
    /\ session # None
    /\ opt.target_cmd = None
    /\ opt.procmon_host # None
    /\ Len(Val(session).target.monitors) = 1

\* C3: absent -> (1, unbounded); "N" -> (N, N); "a-b" -> (a, b);
\* "-b" -> (1, b); "a-" -> (a, unbounded); none of these raises, and the
\* session gets start and end as index_start and index_end.
C3_RangeOfSpecifier ==
    /\ Ran("index") =>
         LET ix == opt.test_case_index
             Is(s, e) == Passed("index") /\ start = s /\ end = e
         IN /\ ix = None => Is(Some(1), None)
            /\ \A n \in Nums :
                 ix = Some(Decimal(n)) => Is(Some(n), Some(n))
            /\ \A a \in Nums, b \in Nums :
                 ix = Some(Decimal(a) \o <<"-">> \o Decimal(b))
                    => Is(Some(a), Some(b))
            /\ \A b \in Nums :
                 ix = Some(<<"-">> \o Decimal(b)) => Is(Some(1), Some(b))
            /\ \A a \in Nums :
                 ix = Some(Decimal(a) \o <<"-">>) => Is(Some(a), None)
    /\ session # None =>
         /\ Val(session).index_start = start
         /\ Val(session).index_end = end

C3_Witness ==
    /\ session # None
    /\ opt.test_case_index = Some(<<"-", "1", "2">>)
    /\ Val(session).index_start = Some(1)
    /\ Val(session).index_end = Some(12)

\* C4: a constructed session has start >= 1 and, when end is bounded,
\* start <= end.
C4_RangeWellFormed ==
    session # None =>
      /\ Val(start) >= 1
      /\ end # None => Val(start) <= Val(end)

\* C5: with --qemu on Windows, or with --qemu and neither --qemu-path nor a
\* resolved afl-qemu-trace, the --qemu block ends the process with code 1,
\* with no monitor, no file, no connection and no session built and no
\* collaborator called.
C5_QemuFailsFast ==
    (/\ Ran("debugger")
     /\ opt.qemu
     /\ \/ platform = "Windows"
        \/ opt.qemu_path = None /\ ~Truthy(QEMU_PATH))
    => /\ pc = "exit"
       /\ exit_code = Some(1)
       /\ exc = "SystemExit"
       /\ heap = <<>>
       /\ files = <<>>
       /\ connection = None
       /\ session = None
       /\ calls = <<>>

C5_Witness ==
    /\ pc = "exit"
    /\ exit_code = Some(1)
    /\ opt.qemu
    /\ platform = "Windows"
    /\ QEMU_PATH # None
    /\ opt.csv_out # None
    /\ opt.target_cmd # None

\* C6: the logger list holds a FuzzLoggerText and no FuzzLoggerCurses when
\* --text-dump is set, a FuzzLoggerCurses only when --tui is set without
\* --text-dump, a FuzzLoggerCsv iff --csv-out is given, and the CSV logger
\* after the console logger.
C6_LoggerList ==
    /\ Passed("loggers") =>
         LET At(class) ==
                 {i \in 1..Len(fuzz_loggers) : fuzz_loggers[i].class = class}
             text == At("FuzzLoggerText")
             tui == At("FuzzLoggerCurses")
             csv == At("FuzzLoggerCsv")
         IN /\ Cardinality(text \cup tui) <= 1
            /\ opt.text_dump => Cardinality(text) = 1 /\ tui = {}
            /\ tui # {} <=> (opt.tui /\ ~opt.text_dump)
            /\ text # {} <=> opt.text_dump
            /\ Cardinality(csv) = (IF opt.csv_out # None THEN 1 ELSE 0)
            /\ \A i \in csv, j \in text \cup tui : j < i
    /\ session # None => Val(session).fuzz_loggers = fuzz_loggers

C6_Witness ==
    /\ session # None
    /\ opt.text_dump
    /\ opt.tui
    /\ opt.csv_out # None
    /\ Len(Val(session).fuzz_loggers) = 2

\* C7: the options set_options pushes never hold both capture_output and
\* hide_output: CAPTURE gives capture_output only, HIDE hide_output only,
\* MIRROR neither; --target-cmd "m -" with CAPTURE gives
\* start_commands = [["m", "-"]] and capture_output = True.
C7_StdoutOptionsExclusive ==
    LET Good(o) ==
            LET keys == DOMAIN o IN
            /\ ~({"capture_output", "hide_output"} \subseteq keys)
            /\ opt.stdout = "CAPTURE" =>
                 /\ "capture_output" \in keys
                 /\ o["capture_output"] = TRUE
                 /\ "hide_output" \notin keys
            /\ opt.stdout = "HIDE" =>
                 /\ "hide_output" \in keys
                 /\ o["hide_output"] = TRUE
                 /\ "capture_output" \notin keys
            /\ opt.stdout = "MIRROR" =>
                 keys \cap {"capture_output", "hide_output"} = {}
            /\ (opt.stdout = "CAPTURE"
                /\ opt.target_cmd = Some(<<"m", " ", "-">>)) =>
                 /\ "start_commands" \in keys
                 /\ o["start_commands"] = << <<(<<"m">>), (<<"-">>)>> >>
    IN /\ Passed("options") => Good(procmon_options)
       /\ \A i \in 1..Len(heap) :
            heap[i].options # None =>
              /\ Val(heap[i].options) = procmon_options
              /\ Good(Val(heap[i].options))

C7_Witness ==
    /\ opt.stdout = "CAPTURE"
    /\ opt.target_cmd = Some(<<"m", " ", "-">>)
    /\ procmon # None
    /\ heap[Val(procmon)].options # None
    /\ "capture_output" \in DOMAIN Val(heap[Val(procmon)].options)

\* C8: no run ends with the CSV file handle still open.
C8_CsvReleasedAtEnd ==
    Terminated => \A i \in 1..Len(files) : files[i].state = "closed"

\* C9: startup_wait is in the options, with the requested value, only for a
\* strictly positive --target-start-wait; start_commands is in the options
\* iff --target-cmd is given.
C9_WaitOnlyWhenPositive ==
    Passed("options") =>
      LET keys == DOMAIN procmon_options IN
      /\ "startup_wait" \in keys <=> opt.target_start_wait > 0
      /\ "startup_wait" \in keys =>
           procmon_options["startup_wait"] = opt.target_start_wait
      /\ "start_commands" \in keys <=> opt.target_cmd # None

\* C10: with --procmon-host the one monitor is a ProcessMonitor on
\* (procmon_host, procmon_port) and no ProcessMonitorLocal is constructed;
\* a ProcessMonitorLocal is constructed only for --target-cmd without
\* --procmon-host, with the debugger class --qemu selects; set_options is
\* called once on the chosen monitor, before the session is constructed.
C10_MonitorKind ==
    LET localWanted == opt.target_cmd # None /\ opt.procmon_host = None
        locals_ == {i \in 1..Len(heap) : heap[i].class = "ProcessMonitorLocal"}
    IN
    /\ locals_ # {} => localWanted
    /\ Passed("local_procmon") =>
         /\ Cardinality(locals_) = (IF localWanted THEN 1 ELSE 0)
         /\ \A i \in locals_ :
              /\ local_procmon = Some(i)
              /\ heap[i].debugger_class =
                   (IF opt.qemu THEN "DebuggerThreadQemu"
                    ELSE "DebuggerThreadSimple")
    /\ (Ran("monitors") /\ opt.procmon_host # None) =>
         /\ Len(heap) = 1
         /\ procmon = Some(1)
         /\ heap[1].class = "ProcessMonitor"
         /\ heap[1].host = Val(opt.procmon_host)
         /\ heap[1].port = opt.procmon_port
    /\ (Ran("monitors") /\ localWanted) => procmon = local_procmon
    /\ (Ran("monitors")
        /\ (opt.procmon_host # None \/ opt.target_cmd # None)) =>
         /\ heap[Val(procmon)].set_options_calls = 1
         /\ Cardinality(CallsOf({"set_options"})) = 1
         /\ Passed("monitors") => monitors = <<Val(procmon)>>
         /\ \A j \in CallsOf({"Session"}) :
              \E i \in CallsOf({"set_options"}) : i < j
    /\ Ran("monitors") => \A i \in 1..Len(heap) :
         heap[i].set_options_calls = (IF procmon = Some(i) THEN 1 ELSE 0)

C10_Witness ==
    /\ session # None
    /\ opt.procmon_host # None
    /\ opt.target_cmd # None
    /\ opt.qemu
    /\ heap[Val(procmon)].class = "ProcessMonitor"

====
